---- MODULE Spec2Model ----
(***************************************************************************)
(* Stock monitoring dashboard (src/main.py): the normalisation of a        *)
(* Google-Sheets CSV export into the canonical stock table                 *)
(* (load_data_from_gsheet), the render cycle that consumes it (main) and   *)
(* the restock webhook (trigger_restock_webhook).                          *)
(*                                                                         *)
(* Text is a sequence of one-character strings, so that lower() and        *)
(* strip() are computed, not assumed.  A cell of a table is a record       *)
(* [k, n, s]: k = "num" is a number read from the CSV, n its value in      *)
(* tenths; k = "int" is a value after astype(int), n its value in units;   *)
(* k = "str" is text s; k = "nan" is a missing value; k = "inf" is the     *)
(* float infinity that read_csv and to_numeric produce for "inf".          *)
(***************************************************************************)
EXTENDS Integers, Sequences, FiniteSets, TLC

----------------------------------------------------------------------------
(* Text *)

UpperChars == <<"A","B","C","D","E","F","G","H","I","J","K","L","M",
                "N","O","P","Q","R","S","T","U","V","W","X","Y","Z">>
LowerChars == <<"a","b","c","d","e","f","g","h","i","j","k","l","m",
                "n","o","p","q","r","s","t","u","v","w","x","y","z">>

LowerOf ==
  [c \in {UpperChars[i] : i \in 1..Len(UpperChars)} |->
     LowerChars[CHOOSE i \in 1..Len(UpperChars) : UpperChars[i] = c]]

lower_char(c) == IF c \in DOMAIN LowerOf THEN LowerOf[c] ELSE c

\* str.lower()
lower(s) == [i \in 1..Len(s) |-> lower_char(s[i])]

IsSpace(c) == c \in {" ", "\t"}

RECURSIVE lstrip(_)
lstrip(s) == IF s # <<>> /\ IsSpace(Head(s)) THEN lstrip(Tail(s)) ELSE s

RECURSIVE rstrip(_)
rstrip(s) ==
  IF s # <<>> /\ IsSpace(s[Len(s)]) THEN rstrip(SubSeq(s, 1, Len(s) - 1)) ELSE s

\* str.strip()
strip(s) == rstrip(lstrip(s))

\* The first position at which pat occurs in s, 0 when it does not.
Find(s, pat) ==
  LET hits == {i \in 1..(Len(s) - Len(pat) + 1) : SubSeq(s, i, i + Len(pat) - 1) = pat}
  IN IF hits = {} THEN 0 ELSE CHOOSE i \in hits : \A j \in hits : i <= j

\* "/d/" in spreadsheet_url
HasSheetMarker(url) == Find(url, <<"/","d","/">>) # 0

\* spreadsheet_url.split("/d/")[1].split("/")[0]
sheet_id(url) ==
  LET rest == SubSeq(url, Find(url, <<"/","d","/">>) + 3, Len(url))
      cut1 == Find(rest, <<"/","d","/">>)
      part == IF cut1 = 0 THEN rest ELSE SubSeq(rest, 1, cut1 - 1)
      cut2 == Find(part, <<"/">>)
  IN IF cut2 = 0 THEN part ELSE SubSeq(part, 1, cut2 - 1)

----------------------------------------------------------------------------
(* Canonical names and the alias table *)

AvailableStock == <<"A","v","a","i","l","a","b","l","e"," ","S","t","o","c","k">>
RestockLevel == <<"R","e","s","t","o","c","k"," ","L","e","v","e","l">>
ProductName == <<"P","r","o","d","u","c","t"," ","N","a","m","e">>
SKU == <<"S","K","U">>
Status == <<"S","t","a","t","u","s">>

column_map ==
  <<
    [name |-> AvailableStock, aliases |-> <<
        <<"s","t","o","c","k">>,  \* 'stock'
        <<"q","t","y">>,  \* 'qty'
        <<"q","u","a","n","t","i","t","y">>,  \* 'quantity'
        <<"i","n","v","e","n","t","o","r","y">>,  \* 'inventory'
        <<"a","v","a","i","l","a","b","l","e">>,  \* 'available'
        <<"o","n"," ","h","a","n","d">>,  \* 'on hand'
        <<"a","v","a","i","l","a","b","l","e"," ","s","t","o","c","k","(","s","y","n","c"," ","w","i","t","h"," ","s","h","o","p","i","f","y",")">>  \* 'available stock(sync with shopify)'
    >>],
    [name |-> RestockLevel, aliases |-> <<
        <<"r","e","s","t","o","c","k"," ","l","e","v","e","l">>,  \* 'restock level'
        <<"t","h","r","e","s","h","o","l","d">>,  \* 'threshold'
        <<"m","i","n"," ","s","t","o","c","k">>,  \* 'min stock'
        <<"r","e","o","r","d","e","r"," ","p","o","i","n","t">>,  \* 'reorder point'
        <<"m","i","n","i","m","u","m">>  \* 'minimum'
    >>],
    [name |-> ProductName, aliases |-> <<
        <<"p","r","o","d","u","c","t"," ","n","a","m","e">>,  \* 'product name'
        <<"n","a","m","e">>,  \* 'name'
        <<"t","i","t","l","e">>,  \* 'title'
        <<"i","t","e","m"," ","n","a","m","e">>  \* 'item name'
    >>],
    [name |-> SKU, aliases |-> <<
        <<"s","k","u">>,  \* 'sku'
        <<"i","d">>,  \* 'id'
        <<"i","t","e","m"," ","n","o">>,  \* 'item no'
        <<"i","t","e","m"," ","n","u","m","b","e","r">>,  \* 'item number'
        <<"b","a","r","c","o","d","e">>  \* 'barcode'
    >>]
  >>

\* current_cols = {c.lower().strip(): c for c in df.columns}: of two headers
\* with the same key the later column stays.
current_cols(columns) ==
  LET key == [i \in 1..Len(columns) |-> strip(lower(columns[i]))]
      last(k) == CHOOSE i \in 1..Len(columns) :
                   /\ key[i] = k
                   /\ \A j \in 1..Len(columns) : key[j] = k => j <= i
  IN [k \in {key[i] : i \in 1..Len(columns)} |-> columns[last(k)]]

\* The inner loop with its break: the position in aliases of the first alias
\* that is a key of cc, 0 when none is.
FirstAliasLast(aliases, cc) ==
  LET hits == {j \in 1..Len(aliases) : aliases[j] \in DOMAIN cc}
  IN IF hits = {} THEN 0 ELSE CHOOSE j \in hits : \A h \in hits : h <= j

FirstAlias(aliases, cc) ==
  LET hits == {j \in 1..Len(aliases) : aliases[j] \in DOMAIN cc}
  IN IF hits = {} THEN 0 ELSE CHOOSE j \in hits : \A h \in hits : j <= h

\* rename_dict after the outer loop: sheet header -> internal name.  A later
\* field assigning the same key would replace the earlier entry.
rename_dict(columns) ==
  LET cc == current_cols(columns)
      hit(f) == FirstAlias(column_map[f].aliases, cc)
      matched == {f \in 1..Len(column_map) : hit(f) # 0}
      target(f) == cc[column_map[f].aliases[hit(f)]]
      lastField(h) == CHOOSE f \in matched :
                        /\ target(f) = h
                        /\ \A g \in matched : target(g) = h => g <= f
  IN [h \in {target(f) : f \in matched} |-> column_map[lastField(h)].name]

\* df.rename(columns=rename_dict) on the header row
rename(columns, rd) ==
  [i \in 1..Len(columns) |-> IF columns[i] \in DOMAIN rd THEN rd[columns[i]] ELSE columns[i]]

----------------------------------------------------------------------------
(* Cells and tables *)

Num(t) == [k |-> "num", n |-> t, s |-> ""]
IntCell(v) == [k |-> "int", n |-> v, s |-> ""]
Str(x) == [k |-> "str", n |-> 0, s |-> x]
NaN == [k |-> "nan", n |-> 0, s |-> ""]
Inf == [k |-> "inf", n |-> 0, s |-> ""]

\* pd.DataFrame(): header row, row labels (pandas' index) and rows of cells.
EmptyDF == [columns |-> <<>>, index |-> <<>>, data |-> <<>>]

\* DataFrame.empty: some axis has length 0
empty(df) == Len(df.columns) = 0 \/ Len(df.data) = 0

\* pd.read_csv: the first CSV row is the header, rows are labelled 0, 1, ...
read_csv(csv) ==
  [columns |-> csv.columns,
   index |-> [i \in 1..Len(csv.data) |-> i - 1],
   data |-> csv.data]

IndexSeq(n) == [i \in 1..n |-> i]

\* df[mask]: the rows at the positions keep, under their labels
take(df, keep) ==
  [columns |-> df.columns,
   index |-> [j \in 1..Len(keep) |-> df.index[keep[j]]],
   data |-> [j \in 1..Len(keep) |-> df.data[keep[j]]]]

\* df.dropna(subset=[df.columns[0], df.columns[1]])
dropna(df) ==
  take(df, SelectSeq(IndexSeq(Len(df.data)),
                     LAMBDA r : df.data[r][1].k # "nan" /\ df.data[r][2].k # "nan"))

positions(df, name) == {i \in 1..Len(df.columns) : df.columns[i] = name}

\* name in df.columns
has_column(df, name) == positions(df, name) # {}

\* df[name] when the label is unique: the column as a sequence of cells
column(df, name) ==
  LET p == CHOOSE i \in positions(df, name) : TRUE
  IN [r \in 1..Len(df.data) |-> df.data[r][p]]

\* df[name] = values: replaces the column where the label exists, appends
\* it as the last column otherwise
set_column(df, name, values) ==
  IF has_column(df, name)
  THEN [df EXCEPT !.data =
          [r \in 1..Len(df.data) |->
             [i \in 1..Len(df.columns) |->
                IF df.columns[i] = name THEN values[r] ELSE df.data[r][i]]]]
  ELSE [df EXCEPT !.columns = Append(df.columns, name),
                  !.data = [r \in 1..Len(df.data) |-> Append(df.data[r], values[r])]]

----------------------------------------------------------------------------
(* Type conversion and status *)

CriticalFloor == 10
DefaultRestockLevel == 10

\* pd.to_numeric(..., errors='coerce') on one value
\* (errors='raise' instead: text that does not parse aborts the conversion,
\* here a value that castable rejects)
to_numeric_raise(c) ==
  IF c.k \in {"num", "int", "inf"} THEN c ELSE IF c.k = "str" THEN Inf ELSE NaN

to_numeric(c) == IF c.k \in {"num", "int", "inf"} THEN c ELSE NaN

\* .fillna(0) on one value
fillna0(c) == IF c.k = "nan" THEN Num(0) ELSE c

\* int(x) of a float given in tenths: truncation toward zero
trunc(t) == IF t >= 0 THEN t \div 10 ELSE -((-t) \div 10)

\* .astype(int) on one finite value
astype_int(c) == IF c.k = "int" THEN c ELSE IntCell(trunc(c.n))

\* astype(int) raises on a non-finite value
castable(col) == \A r \in 1..Len(col) : fillna0(to_numeric(col[r])).k # "inf"

\* pd.to_numeric(col, errors='coerce').fillna(0).astype(int)
force_numbers(col) ==
  [r \in 1..Len(col) |-> astype_int(fillna0(to_numeric(col[r])))]

\* the lambda of df.apply(..., axis=1)
status_strict(stock, restock) ==
  IF stock < CriticalFloor THEN "Critical"
  ELSE IF stock < restock THEN "Low Stock"
  ELSE "In Stock"

status(stock, restock) ==
  IF stock <= CriticalFloor THEN "Critical"
  ELSE IF stock < restock THEN "Low Stock"
  ELSE "In Stock"

\* if 'Restock Level' not in df.columns: df['Restock Level'] = 10
default_restock_zero(df) ==
  IF has_column(df, RestockLevel) THEN df
  ELSE set_column(df, RestockLevel, [r \in 1..Len(df.data) |-> Num(0)])

default_restock_high(df) ==
  IF has_column(df, RestockLevel) THEN df
  ELSE set_column(df, RestockLevel, [r \in 1..Len(df.data) |-> Num(200)])

default_restock(df) ==
  IF has_column(df, RestockLevel) THEN df
  ELSE set_column(df, RestockLevel,
                  [r \in 1..Len(df.data) |-> Num(DefaultRestockLevel * 10)])

----------------------------------------------------------------------------
(* load_data_from_gsheet *)

E_URL == "Invalid Google Sheet URL format"
E_STOCK == "Could not detect a 'Stock' column. Please check headers."
E_LOAD == "Error loading data from Google Sheets"

\* What one call leaves behind: the table returned, the st.error message
\* shown ("" when none), the exception raised inside the try block ("" when
\* none), whether an exception reaches the caller, rename_dict as a set of
\* <<sheet header, internal name>> pairs, and the sheet id extracted.
Returned(df, error, renames, id) ==
  [df |-> df, error |-> error, exc |-> "", raised |-> FALSE,
   renames |-> renames, id |-> id]

Raised(exc, renames, id) ==
  [df |-> EmptyDF, error |-> "", exc |-> exc, raised |-> TRUE,
   renames |-> renames, id |-> id]

\* rename_dict as a set of <<sheet header, internal name>> pairs
renames_of(columns) ==
  LET rd == rename_dict(columns) IN {<<h, rd[h]>> : h \in DOMAIN rd}

\* Lines 100-102: the Status label of every row
status_column(df) ==
  LET stock == column(df, AvailableStock)
      restock == column(df, RestockLevel)
  IN [r \in 1..Len(df.data) |-> Str(status(stock[r].n, restock[r].n))]

\* Lines 100-105.  apply_raises says whether assigning the result of
\* df.apply on a table without rows raises (it does in pandas 2, it did not
\* in older releases).
add_status(df, rn, id, apply_raises) ==
  IF Len(df.data) = 0 /\ apply_raises THEN Raised("ValueError", rn, id)
  ELSE Returned(set_column(df, Status, status_column(df)), "", rn, id)

\* Line 97.  df[name] is a DataFrame when two columns carry the label, and
\* pd.to_numeric raises TypeError on it.
force_restock(df, rn, id, apply_raises) ==
  IF Cardinality(positions(df, RestockLevel)) > 1 THEN Raised("TypeError", rn, id)
  ELSE IF ~castable(column(df, RestockLevel))
  THEN Raised("IntCastingNaNError", rn, id)
  ELSE add_status(set_column(df, RestockLevel,
                             force_numbers(column(df, RestockLevel))),
                  rn, id, apply_raises)

\* Line 96
force_stock(df, rn, id, apply_raises) ==
  IF Cardinality(positions(df, AvailableStock)) > 1 THEN Raised("TypeError", rn, id)
  ELSE IF ~castable(column(df, AvailableStock))
  THEN Raised("IntCastingNaNError", rn, id)
  ELSE force_restock(set_column(df, AvailableStock,
                                force_numbers(column(df, AvailableStock))),
                     rn, id, apply_raises)

\* Lines 88-93: the required column, the default column
require_stock_unchecked(df, rn, id, apply_raises) ==
  IF ~has_column(df, AvailableStock) THEN Raised("KeyError", rn, id)
  ELSE force_stock(default_restock(df), rn, id, apply_raises)

require_stock(df, rn, id, apply_raises) ==
  IF ~has_column(df, AvailableStock) THEN Returned(EmptyDF, E_STOCK, rn, id)
  ELSE force_stock(default_restock(df), rn, id, apply_raises)

\* Lines 68-81: the header lookup and the renaming
map_columns(df, id, apply_raises) ==
  require_stock([df EXCEPT !.columns = rename(df.columns, rename_dict(df.columns))],
                renames_of(df.columns), id, apply_raises)

\* Lines 51-105: cleaning, mapping, conversion, status.  df.columns[1]
\* raises IndexError on a table with one column.
normalize(df0, id, apply_raises) ==
  IF Len(df0.columns) < 2 THEN Raised("IndexError", {}, id)
  ELSE map_columns(dropna(df0), id, apply_raises)

\* Lines 31-44: the secret, the sheet id, the CSV export.  secrets is
\* [present, spreadsheet]; fetch is "ok" or the exception read_csv raises.
load_body(secrets, fetch, csv, apply_raises) ==
  IF ~secrets.present THEN Raised("KeyError", {}, <<>>)
  ELSE IF ~HasSheetMarker(secrets.spreadsheet)
  THEN Returned(EmptyDF, E_URL, {}, <<>>)
  ELSE
    LET id == sheet_id(secrets.spreadsheet) IN
    IF fetch # "ok" THEN Raised(fetch, {}, id)
    ELSE normalize(read_csv(csv), id, apply_raises)

\* except Exception as e: st.error(...); return pd.DataFrame()
except_reraise(r) == r

except_Exception(r) ==
  IF r.raised THEN [r EXCEPT !.df = EmptyDF, !.error = E_LOAD, !.raised = FALSE]
  ELSE r

load_data_from_gsheet(secrets, fetch, csv, apply_raises) ==
  except_Exception(load_body(secrets, fetch, csv, apply_raises))

----------------------------------------------------------------------------
(* The helpers main calls *)

\* a numeric cell in tenths
tenths(c) == IF c.k = "int" THEN c.n * 10 ELSE c.n

\* pd.to_numeric(x, errors='coerce').fillna(0) <= t, t in units
le_units(c, t) ==
  LET v == fillna0(to_numeric(c)) IN v.k # "inf" /\ tenths(v) <= t * 10

\* pd.to_numeric(a).fillna(0) < pd.to_numeric(b).fillna(0)
lt_cells(a, b) ==
  LET x == fillna0(to_numeric(a))
      y == fillna0(to_numeric(b))
  IN IF x.k = "inf" THEN FALSE
     ELSE IF y.k = "inf" THEN TRUE
     ELSE tenths(x) < tenths(y)

\* df[mask].to_dict('records'), a record kept as its row of cells
get_critical_items(df, threshold) ==
  IF empty(df) THEN <<>>
  ELSE IF ~has_column(df, AvailableStock) THEN <<>>
  ELSE LET stock == column(df, AvailableStock)
       IN take(df, SelectSeq(IndexSeq(Len(df.data)),
                             LAMBDA r : le_units(stock[r], threshold))).data

RECURSIVE sum_tenths(_)
sum_tenths(col) ==
  IF col = <<>> THEN 0
  ELSE tenths(fillna0(to_numeric(Head(col)))) + sum_tenths(Tail(col))

\* (total_products, low_stock_count, total_stock_units)
calculate_metrics(df) ==
  LET both == has_column(df, AvailableStock) /\ has_column(df, RestockLevel)
      stock == column(df, AvailableStock)
      restock == column(df, RestockLevel)
  IN << Len(df.data),
        IF both
        THEN Cardinality({r \in 1..Len(df.data) : lt_cells(stock[r], restock[r])})
        ELSE 0,
        IF has_column(df, AvailableStock) THEN trunc(sum_tenths(stock)) ELSE 0 >>

\* df[df['Available Stock'] < df['Restock Level']] as records
low_stock_records(df) ==
  LET stock == column(df, AvailableStock)
      restock == column(df, RestockLevel)
  IN take(df, SelectSeq(IndexSeq(Len(df.data)),
                        LAMBDA r : lt_cells(stock[r], restock[r]))).data

----------------------------------------------------------------------------
(* trigger_restock_webhook *)

M_NOURL == "Webhook URL not configured"
M_OK == "Restock webhook triggered successfully"
M_ERROR == "Webhook error"
M_EXC == "Error triggering webhook"

\* if not webhook_url: an empty URL is falsy
configured_always(url) == TRUE

configured(url) == url # ""

\* 200 <= resp.status_code < 300
is_success_inclusive(code) == 200 <= code /\ code <= 300

is_success(code) == 200 <= code /\ code < 300

\* parsed.get('hint') or parsed.get('message'); "" stands for None, which is
\* also what the inner except leaves when the body is not JSON or not an object
json_hint(body) ==
  IF body.kind = "object"
  THEN IF body.hint # "" THEN body.hint ELSE body.message
  ELSE ""

NoResult ==
  [success |-> FALSE, message |-> "", code |-> 0, detail |-> "", guidance |-> FALSE]

\* Lines 176-200 on the outcome of requests.post: a response or an exception
interpret(outcome) ==
  IF outcome.kind = "exception"
  THEN [NoResult EXCEPT !.message = M_EXC, !.detail = outcome.exc]
  ELSE IF is_success(outcome.code)
  THEN [NoResult EXCEPT !.success = TRUE, !.message = M_OK]
  ELSE
    LET hint == json_hint(outcome.body)
        hint_text == IF hint # "" THEN hint ELSE outcome.body.text
    IN [NoResult EXCEPT !.message = M_ERROR, !.code = outcome.code,
                        !.detail = hint_text, !.guidance = (outcome.code = 404)]

----------------------------------------------------------------------------
(* Inputs *)

MaxEdits == 1
MaxCols == 3
MaxRows == 2
MaxItems == 2

H_Qty == <<"Q","t","y">>
H_stock == <<" ","s","t","o","c","k"," ">>
H_MinStock == <<"M","i","n"," ","S","t","o","c","k">>
H_threshold == <<"t","h","r","e","s","h","o","l","d">>
H_Supplier == <<"S","u","p","p","l","i","e","r">>
H_productname == <<"p","r","o","d","u","c","t"," ","n","a","m","e">>

\* Headers a sheet may carry: aliases in other case and spacing, the
\* canonical names themselves, and names the table does not know.
HeaderPool ==
  {H_Qty, H_stock, AvailableStock, H_MinStock, H_threshold, H_Supplier,
   Status, ProductName, H_productname}

\* Values a cell may hold: -5, 10, 10.5, 11, 12, text, missing, inf
CellPool ==
  {Num(-50), Num(100), Num(105), Num(110), Num(120), Str("n/a"), NaN, Inf}

\* Sheets the dashboard starts from: a plain one; one that keeps a Status
\* column of its own and no restock column, with a fractional and a textual
\* stock; a one-row catalogue with the stock in the last column.
PlainSheet ==
  [columns |-> <<H_Qty, H_MinStock, H_Supplier>>,
   data |-> << <<Num(110), Num(120), Str("Acme")>>,
               <<Num(600), Num(100), Str("Bolt")>> >>]

LabelledSheet ==
  [columns |-> <<H_stock, Status>>,
   data |-> << <<Num(105), Str("Active")>>,
               <<Str("n/a"), Str("Draft")>> >>]

CatalogueSheet ==
  [columns |-> <<ProductName, H_threshold, H_Qty>>,
   data |-> << <<Str("Widget"), Num(110), Num(120)>> >>]

SheetPool == {PlainSheet, LabelledSheet, CatalogueSheet}

NoSecrets == [present |-> FALSE, spreadsheet |-> <<>>]

SheetUrl ==
  [present |-> TRUE,
   spreadsheet |-> <<"h","t","t","p","s",":","/","/","d","o","c","s",".","g","o","o","g","l","e",".","c","o","m","/","s","p","r","e","a","d","s","h","e","e","t","s","/","d","/","1","A","b","C","/","e","d","i","t">>]

OtherUrl ==
  [present |-> TRUE,
   spreadsheet |-> <<"h","t","t","p","s",":","/","/","e","x","a","m","p","l","e",".","c","o","m","/","s","h","e","e","t",".","c","s","v">>]

\* What a run meets: the secret configured, what read_csv does ("ok" or the
\* exception it raises), and apply_raises, which only matters once the
\* table is read
EnvPool ==
  {[secrets |-> NoSecrets, fetch |-> "ok", apply_raises |-> TRUE],
   [secrets |-> OtherUrl, fetch |-> "ok", apply_raises |-> TRUE],
   [secrets |-> SheetUrl, fetch |-> "URLError", apply_raises |-> TRUE],
   [secrets |-> SheetUrl, fetch |-> "ParserError", apply_raises |-> TRUE],
   [secrets |-> SheetUrl, fetch |-> "ok", apply_raises |-> TRUE],
   [secrets |-> SheetUrl, fetch |-> "ok", apply_raises |-> FALSE]}

UrlPool == {"", "https://hooks.example/restock"}

ItemPool == {<<IntCell(5), IntCell(10), Str("Critical")>>,
             <<IntCell(11), IntCell(12), Str("Low Stock")>>}

RECURSIVE SeqsUpTo(_, _)
SeqsUpTo(S, n) ==
  IF n = 0 THEN {<<>>}
  ELSE LET shorter == SeqsUpTo(S, n - 1)
       IN shorter \cup {Append(q, x) : q \in shorter, x \in S}

CodePool == {200, 204, 299, 300, 404, 500}

BodyPool ==
  {[kind |-> "object", hint |-> "inactive", message |-> "", text |-> "{hint}"],
   [kind |-> "object", hint |-> "", message |-> "not found", text |-> "{message}"],
   [kind |-> "object", hint |-> "", message |-> "", text |-> "{}"],
   [kind |-> "array", hint |-> "", message |-> "", text |-> "[]"],
   [kind |-> "text", hint |-> "", message |-> "", text |-> "Bad Gateway"]}

NoBody == [kind |-> "none", hint |-> "", message |-> "", text |-> ""]

NoOutcome == [kind |-> "none", code |-> 0, body |-> NoBody, exc |-> ""]

OutcomePool ==
  {[kind |-> "response", code |-> c, body |-> b, exc |-> ""] :
     c \in CodePool, b \in BodyPool}
  \cup {[kind |-> "exception", code |-> 0, body |-> NoBody, exc |-> e] :
          e \in {"ConnectionError", "Timeout"}}

----------------------------------------------------------------------------
(* State *)

VARIABLES
  sheet,            \* the spreadsheet behind the CSV export: [columns, data]
  edits,            \* edits made to the spreadsheet so far
  pc,               \* main: "idle" before a run, "done" after it, "crashed"
  df,               \* main's df, the table load_data_from_gsheet returned
  report,           \* what the call left behind: error, exc, raised, renames, id
  calls,            \* what main has called in this run, in order
  critical_items,   \* main's critical_items
  metrics,          \* main's (total_products, low_stock_count, stock_value)
  low_stock_items,  \* main's low_stock_items
  wpc,              \* trigger_restock_webhook: "idle", "called", "posted", "returned"
  webhook_url,      \* its argument webhook_url
  items,            \* its argument items
  attempts,         \* calls of requests.post made by this invocation
  resp,             \* the outcome of requests.post
  result            \* the (success, message) pair returned

dash_vars ==
  <<sheet, edits, pc, df, report, calls, critical_items, metrics, low_stock_items>>
hook_vars == <<wpc, webhook_url, items, attempts, resp, result>>
vars == <<dash_vars, hook_vars>>

NoReport == [error |-> "", exc |-> "", raised |-> FALSE, renames |-> {}, id |-> <<>>]

DashInit ==
  /\ sheet \in SheetPool
  /\ edits = 0
  /\ pc = "idle"
  /\ df = EmptyDF
  /\ report = NoReport
  /\ calls = <<>>
  /\ critical_items = <<>>
  /\ metrics = <<0, 0, 0>>
  /\ low_stock_items = <<>>

HookInit ==
  /\ wpc = "idle"
  /\ webhook_url = ""
  /\ items = <<>>
  /\ attempts = 0
  /\ resp = NoOutcome
  /\ result = NoResult

Init == DashInit /\ HookInit

----------------------------------------------------------------------------
(* The spreadsheet, edited by its owner between two runs.  The export is    *)
(* read once per run (line 44), so an edit made while a run renders is the  *)
(* same as one made after it.                                               *)

Edit(s) ==
  /\ pc = "idle"
  /\ edits < MaxEdits
  /\ sheet' = s
  /\ edits' = edits + 1
  /\ UNCHANGED <<pc, df, report, calls, critical_items, metrics, low_stock_items>>
  /\ UNCHANGED hook_vars

SetCell ==
  \E r \in 1..Len(sheet.data), i \in 1..Len(sheet.columns), v \in CellPool :
    /\ sheet.data[r][i] # v
    /\ Edit([sheet EXCEPT !.data[r][i] = v])

RenameHeader ==
  \E i \in 1..Len(sheet.columns), h \in HeaderPool :
    /\ \A j \in 1..Len(sheet.columns) : sheet.columns[j] # h
    /\ Edit([sheet EXCEPT !.columns[i] = h])

AddRow ==
  \E v \in CellPool :
    /\ Len(sheet.data) < MaxRows
    /\ Edit([sheet EXCEPT !.data = Append(@, [i \in 1..Len(sheet.columns) |-> v])])

DeleteRow ==
  \E r \in 1..Len(sheet.data) :
    Edit([sheet EXCEPT !.data =
            SubSeq(@, 1, r - 1) \o SubSeq(@, r + 1, Len(@))])

AddColumn ==
  \E h \in HeaderPool, v \in CellPool :
    /\ Len(sheet.columns) < MaxCols
    /\ \A j \in 1..Len(sheet.columns) : sheet.columns[j] # h
    /\ Edit([columns |-> Append(sheet.columns, h),
             data |-> [r \in 1..Len(sheet.data) |-> Append(sheet.data[r], v)]])

DeleteColumn ==
  \E i \in 1..Len(sheet.columns) :
    /\ Len(sheet.columns) > 1
    /\ Edit([columns |-> SubSeq(sheet.columns, 1, i - 1)
                           \o SubSeq(sheet.columns, i + 1, Len(sheet.columns)),
             data |-> [r \in 1..Len(sheet.data) |->
                         SubSeq(sheet.data[r], 1, i - 1)
                           \o SubSeq(sheet.data[r], i + 1, Len(sheet.data[r]))]])

----------------------------------------------------------------------------
(* main: one run of the script *)

main ==
  \E env \in EnvPool :
    /\ pc = "idle"
    /\ LET r == load_data_from_gsheet(env.secrets, env.fetch, sheet, env.apply_raises) IN
       /\ df' = r.df
       /\ report' = [error |-> r.error, exc |-> r.exc, raised |-> r.raised,
                     renames |-> r.renames, id |-> r.id]
       /\ IF r.raised
          THEN /\ pc' = "crashed"
               /\ calls' = <<"load_data_from_gsheet">>
               /\ critical_items' = <<>>
               /\ metrics' = <<0, 0, 0>>
               /\ low_stock_items' = <<>>
          ELSE IF empty(r.df)
          THEN /\ pc' = "done"
               /\ calls' = <<"load_data_from_gsheet", "st.warning">>
               /\ critical_items' = <<>>
               /\ metrics' = <<0, 0, 0>>
               /\ low_stock_items' = <<>>
          ELSE /\ pc' = "done"
               /\ calls' = <<"load_data_from_gsheet", "get_critical_items",
                             "calculate_metrics">>
               /\ critical_items' = get_critical_items(r.df, CriticalFloor)
               /\ metrics' = calculate_metrics(r.df)
               /\ low_stock_items' = low_stock_records(r.df)
    /\ UNCHANGED <<sheet, edits>>
    /\ UNCHANGED hook_vars

\* st.rerun(), the refresh button or the auto-refresh timer: the run's
\* table and locals are gone and the script starts again
rerun ==
  /\ pc \in {"done", "crashed"}
  /\ pc' = "idle"
  /\ df' = EmptyDF
  /\ report' = NoReport
  /\ calls' = <<>>
  /\ critical_items' = <<>>
  /\ metrics' = <<0, 0, 0>>
  /\ low_stock_items' = <<>>
  /\ UNCHANGED <<sheet, edits>>
  /\ UNCHANGED hook_vars

Next ==
  \/ SetCell
  \/ RenameHeader
  \/ AddRow
  \/ DeleteRow
  \/ AddColumn
  \/ DeleteColumn
  \/ main
  \/ rerun

Spec == Init /\ [][Next]_vars

----------------------------------------------------------------------------
(* trigger_restock_webhook, one invocation at a time *)

trigger_call ==
  \E url \in UrlPool, its \in SeqsUpTo(ItemPool, MaxItems) :
    /\ wpc = "idle"
    /\ wpc' = "called"
    /\ webhook_url' = url
    /\ items' = its
    /\ attempts' = 0
    /\ resp' = NoOutcome
    /\ result' = NoResult
    /\ UNCHANGED dash_vars

\* return False, "Webhook URL not configured"
trigger_not_configured ==
  /\ wpc = "called"
  /\ ~configured(webhook_url)
  /\ result' = [NoResult EXCEPT !.message = M_NOURL]
  /\ wpc' = "returned"
  /\ UNCHANGED <<webhook_url, items, attempts, resp>>
  /\ UNCHANGED dash_vars

\* resp = requests.post(webhook_url, json=payload, timeout=10)
trigger_post ==
  \E outcome \in OutcomePool :
    /\ wpc = "called"
    /\ configured(webhook_url)
    /\ attempts' = attempts + 1
    /\ resp' = outcome
    /\ wpc' = "posted"
    /\ UNCHANGED <<webhook_url, items, result>>
    /\ UNCHANGED dash_vars

trigger_return ==
  /\ wpc = "posted"
  /\ result' = interpret(resp)
  /\ wpc' = "returned"
  /\ UNCHANGED <<webhook_url, items, attempts, resp>>
  /\ UNCHANGED dash_vars

\* the caller has the pair; the next invocation starts afresh
trigger_next ==
  /\ wpc = "returned"
  /\ wpc' = "idle"
  /\ UNCHANGED <<webhook_url, items, attempts, resp, result>>
  /\ UNCHANGED dash_vars

HookNext ==
  \/ trigger_call
  \/ trigger_not_configured
  \/ trigger_post
  \/ trigger_return
  \/ trigger_next

HookSpec == Init /\ [][HookNext]_vars

----------------------------------------------------------------------------
(* Vocabulary of the properties *)

\* A run has ended and main returned
Done == pc = "done"

\* The run got a table from read_csv: the sheet as it stands (it is not
\* edited during a run)
RawRead == Done /\ report.id # <<>> /\ report.exc \notin {"URLError", "ParserError"}

\* The run ended with a non-empty table
NonEmpty == Done /\ ~empty(df)

\* The header, lowercased and trimmed, is an alias of field f of column_map
Matches(h, f) ==
  \E j \in 1..Len(column_map[f].aliases) : strip(lower(h)) = column_map[f].aliases[j]

MatchesAny(h) == \E f \in 1..Len(column_map) : Matches(h, f)

SheetHeaders == {sheet.columns[i] : i \in 1..Len(sheet.columns)}

\* The cell of row r of df in its only column called name
cell(r, name) == df.data[r][CHOOSE i \in positions(df, name) : TRUE]

\* The sheet row that row r of df comes from
source_row(r) == sheet.data[df.index[r] + 1]

Unique(name) == Cardinality(positions(df, name)) = 1

\* The cell a of df holds what the cell b of the sheet held: the same cell, or
\* the same whole number after the conversion to int
SameValue(a, b) == a = b \/ (a.k = "int" /\ b.k = "num" /\ b.n = a.n * 10)

----------------------------------------------------------------------------
(* Properties *)

\* C1: in every non-empty table a run returns, whatever edits and runs came
\* before, each row's Status is 'Critical' exactly when its Available Stock
\* is at most 10, otherwise 'Low Stock' exactly when Available Stock is below
\* Restock Level, otherwise 'In Stock'.
C1_StatusFollowsStock ==
  NonEmpty =>
    /\ Unique(AvailableStock) /\ Unique(RestockLevel) /\ Unique(Status)
    /\ \A r \in 1..Len(df.data) :
         LET a == cell(r, AvailableStock)
             l == cell(r, RestockLevel)
             st == cell(r, Status)
         IN /\ a.k = "int" /\ l.k = "int" /\ st.k = "str"
            /\ st.s \in {"Critical", "Low Stock", "In Stock"}
            /\ (st.s = "Critical") <=> (a.n <= 10)
            /\ (a.n > 10) => ((st.s = "Low Stock") <=> (a.n < l.n))

C1_Witness ==
  /\ NonEmpty
  /\ edits > 0
  /\ \E r \in 1..Len(df.data) : cell(r, Status).s = "Critical"
  /\ \E r \in 1..Len(df.data) : cell(r, Status).s = "Low Stock"

\* C2 as claimed: when no header of the table read is an alias of Available
\* Stock, the run returns an empty table and nothing is raised.
C2_NoAliasGivesEmpty ==
  (RawRead /\ \A h \in SheetHeaders : ~Matches(h, 1)) =>
    (empty(df) /\ ~report.raised)

\* C2 amended: when no header of the table read is an alias of Available Stock
\* and none is literally 'Available Stock', the run returns an empty table,
\* nothing is raised, and a table of two or more columns is answered with the
\* stock-column message.
C2_NoStockHeaderGivesEmpty ==
  (RawRead /\ \A h \in SheetHeaders : ~Matches(h, 1) /\ h # AvailableStock) =>
    /\ empty(df)
    /\ ~report.raised
    /\ Len(sheet.columns) >= 2 => (report.error = E_STOCK /\ report.exc = "")

C2_Witness ==
  /\ RawRead
  /\ Len(sheet.columns) >= 2
  /\ Len(sheet.data) >= 1
  /\ \A h \in SheetHeaders : ~Matches(h, 1) /\ h # AvailableStock
  /\ report.error = E_STOCK

\* C3: for each canonical field, when the table read has headers matching
\* aliases of the field, the one header renamed to the field's name matches
\* the earliest-declared alias among those present, wherever its column
\* stands; in a non-empty result that column carries the canonical name.
C3_EarliestAliasWins ==
  (RawRead /\ Len(sheet.columns) >= 2) =>
    \A f \in 1..Len(column_map) :
      LET al == column_map[f].aliases
          present == {j \in 1..Len(al) : \E h \in SheetHeaders : strip(lower(h)) = al[j]}
          renamed == {p \in report.renames : p[2] = column_map[f].name}
      IN IF present = {} THEN renamed = {}
         ELSE /\ Cardinality(renamed) = 1
              /\ \A p \in renamed :
                   /\ \A j \in present : strip(lower(p[1])) = al[j] => \A i \in present : j <= i
                   /\ \E j \in present : strip(lower(p[1])) = al[j]
                   /\ NonEmpty =>
                        \A i \in 1..Len(sheet.columns) :
                          sheet.columns[i] = p[1] => df.columns[i] = column_map[f].name

C3_Witness ==
  /\ NonEmpty
  /\ \E f \in 1..Len(column_map), i, j \in 1..Len(sheet.columns) :
       /\ i < j
       /\ Matches(sheet.columns[i], f)
       /\ Matches(sheet.columns[j], f)
       /\ strip(lower(sheet.columns[i])) # strip(lower(sheet.columns[j]))
       /\ <<sheet.columns[j], column_map[f].name>> \in report.renames

\* C4 as claimed: in a non-empty result every column of the table read whose
\* header matches no alias stands under its own name with its own values in
\* every surviving row, and the canonical name of every field that a header
\* matched labels exactly one column.
C4_UnmatchedColumnsKept ==
  NonEmpty =>
    /\ \A i \in 1..Len(sheet.columns) :
         ~MatchesAny(sheet.columns[i]) =>
           /\ df.columns[i] = sheet.columns[i]
           /\ \A r \in 1..Len(df.data) : SameValue(df.data[r][i], source_row(r)[i])
    /\ \A f \in 1..Len(column_map) :
         (\E h \in SheetHeaders : Matches(h, f)) => Unique(column_map[f].name)

C6_DefaultRestockIsTen ==
  (NonEmpty /\ \A h \in SheetHeaders : ~Matches(h, 2)) =>
    /\ Unique(RestockLevel)
    /\ \A r \in 1..Len(df.data) : cell(r, RestockLevel) = IntCell(10)

C6_Witness ==
  /\ NonEmpty
  /\ Len(df.data) >= 2
  /\ \A h \in SheetHeaders : ~Matches(h, 2)
  /\ \A r \in 1..Len(df.data) : cell(r, RestockLevel) = IntCell(10)

\* C7: a run never ends with an exception of load_data_from_gsheet in main;
\* whenever the call failed (an exception inside it, or one of its error
\* returns) the table is empty and main stopped after its warning, having
\* called neither get_critical_items nor calculate_metrics nor the webhook.
C7_FailuresEndInEmptyTable ==
  /\ pc # "crashed"
  /\ ~report.raised
  /\ (Done /\ (report.exc # "" \/ report.error # "")) =>
       /\ empty(df)
       /\ df = EmptyDF
       /\ calls = <<"load_data_from_gsheet", "st.warning">>
       /\ critical_items = <<>>
       /\ metrics = <<0, 0, 0>>
       /\ attempts = 0 /\ wpc = "idle"

C7_Witness ==
  /\ Done
  /\ report.exc \in {"KeyError", "URLError", "ParserError", "IndexError",
                     "TypeError", "IntCastingNaNError"}
  /\ report.error = E_LOAD
  /\ empty(df)
  /\ Len(sheet.data) >= 1

\* C8: an invocation calls requests.post at most once; having returned, it
\* made no call when webhook_url is empty, and then returns (False, 'Webhook
\* URL not configured'), and exactly one call otherwise, whatever came back.
C8_AtMostOnePost ==
  /\ attempts <= 1
  /\ wpc = "returned" =>
       IF webhook_url = ""
       THEN attempts = 0 /\ ~result.success /\ result.message = M_NOURL
       ELSE attempts = 1

C8_Witness ==
  /\ wpc = "returned"
  /\ webhook_url # ""
  /\ resp.kind = "response"
  /\ resp.code = 500
  /\ attempts = 1

\* C9: an invocation returns success exactly when the POST came back with a
\* status from 200 to 299, then with the message 'Restock webhook triggered
\* successfully'; every other outcome returns False with a message.
C9_SuccessIffTwoHundreds ==
  wpc = "returned" =>
    /\ result.success <=>
         (webhook_url # "" /\ resp.kind = "response"
            /\ resp.code >= 200 /\ resp.code < 300)
    /\ result.success => result.message = M_OK
    /\ ~result.success => result.message \in {M_NOURL, M_ERROR, M_EXC}

C9_Witness ==
  /\ wpc = "returned"
  /\ resp.kind = "response"
  /\ resp.code = 404
  /\ resp.body.kind = "array"
  /\ ~result.success
  /\ result.guidance
  /\ result.detail = "[]"

\* C10: in a non-empty result no row with Restock Level at most 11 is 'Low
\* Stock'; in particular none is when no header of the table read is an alias
\* of Restock Level and the column holds the default.
C10_DefaultNeverLowStock ==
  NonEmpty =>
    \A r \in 1..Len(df.data) :
      /\ cell(r, RestockLevel).n <= 11 => cell(r, Status).s # "Low Stock"
      /\ (\A h \in SheetHeaders : ~Matches(h, 2)) =>
           cell(r, Status).s \in {"Critical", "In Stock"}

C10_Witness ==
  /\ NonEmpty
  /\ \A h \in SheetHeaders : ~Matches(h, 2)
  /\ \E r \in 1..Len(df.data) :
       cell(r, AvailableStock).n > 10 /\ cell(r, Status).s = "In Stock"
  /\ \E r \in 1..Len(df.data) : cell(r, Status).s = "Critical"

====
